---- MODULE Spec2Model ----
(***************************************************************************)
(* Model of scripts/update-list.js (class AwesomeStarlightUpdater): the    *)
(* link validator with its run-scoped memo, the duplicate matcher, the     *)
(* classifier with its fallback, and the merge performed by                *)
(* collectAllData.  Strings are TLA+ strings; JavaScript's undefined for a *)
(* missing url/homepage is the empty string, which the code treats the     *)
(* same way at every use (`!url`, `url || ""`, `u?.match`).                *)
(***************************************************************************)
EXTENDS Integers, Sequences, FiniteSets, TLC

\* ------------------------------------------------------------------------
\* String primitives (String.prototype methods and the regular expressions
\* the script uses), computed character by character.
\* ------------------------------------------------------------------------

UpperChars == "ABCDEFGHIJKLMNOPQRSTUVWXYZ"

LowerChars == "abcdefghijklmnopqrstuvwxyz"

Digits == "0123456789"

\* s.charAt(i): the empty string outside the string.
CharAt(s, i) == IF i >= 1 /\ i <= Len(s) THEN SubSeq(s, i, i) ELSE ""

Chars(set) == {CharAt(set, i) : i \in 1..Len(set)}

HasChar(set, c) == c \in Chars(set)

UpperSet == Chars(UpperChars)

AlnumSet == Chars(LowerChars) \cup Chars(Digits)

LowerTable ==
    [c \in UpperSet |->
       CharAt(LowerChars, CHOOSE i \in 1..Len(UpperChars) : CharAt(UpperChars, i) = c)]

LowerOf(c) == IF c \in UpperSet THEN LowerTable[c] ELSE c

RECURSIVE toLowerCase(_)
toLowerCase(s) ==
    IF Len(s) = 0 THEN "" ELSE LowerOf(CharAt(s, 1)) \o toLowerCase(Tail(s))

IsSpace(c) == c = " " \/ c = "\t" \/ c = "\n"

RECURSIVE trimStart(_)
trimStart(s) ==
    IF Len(s) > 0 /\ IsSpace(CharAt(s, 1)) THEN trimStart(Tail(s)) ELSE s

RECURSIVE trimEnd(_)
trimEnd(s) ==
    IF Len(s) > 0 /\ IsSpace(CharAt(s, Len(s)))
    THEN trimEnd(SubSeq(s, 1, Len(s) - 1))
    ELSE s

trim(s) == trimEnd(trimStart(s))

MatchesAt(s, i, pat) ==
    /\ i + Len(pat) - 1 <= Len(s)
    /\ SubSeq(s, i, i + Len(pat) - 1) = pat

includes(s, pat) == \E i \in 1..(Len(s) + 1) : MatchesAt(s, i, pat)

startsWith(s, pat) == MatchesAt(s, 1, pat)

\* s.replace(/\/$/, "")
stripTrailingSlash(s) ==
    IF Len(s) > 0 /\ CharAt(s, Len(s)) = "/" THEN SubSeq(s, 1, Len(s) - 1) ELSE s

\* s.replace(/pat/g, "") for a literal pattern: one left-to-right pass over
\* non-overlapping matches; the result is not rescanned.
RECURSIVE removeAll(_, _)
removeAll(s, pat) ==
    IF Len(s) = 0 THEN ""
    ELSE IF MatchesAt(s, 1, pat) THEN removeAll(SubSeq(s, Len(pat) + 1, Len(s)), pat)
    ELSE CharAt(s, 1) \o removeAll(Tail(s), pat)

\* s.replace(/https?:\/\/(www\.)?/g, "")
RECURSIVE removeProtocol(_)
removeProtocol(s) ==
    IF Len(s) = 0 THEN ""
    ELSE LET p == IF MatchesAt(s, 1, "https://") THEN 8
                  ELSE IF MatchesAt(s, 1, "http://") THEN 7 ELSE 0
             w == IF p > 0 /\ MatchesAt(s, p + 1, "www.") THEN 4 ELSE 0
         IN  IF p > 0 THEN removeProtocol(SubSeq(s, p + w + 1, Len(s)))
             ELSE CharAt(s, 1) \o removeProtocol(Tail(s))

\* s.replace(/docs?/g, "")
RECURSIVE removeDocs(_)
removeDocs(s) ==
    IF Len(s) = 0 THEN ""
    ELSE IF MatchesAt(s, 1, "docs") THEN removeDocs(SubSeq(s, 5, Len(s)))
    ELSE IF MatchesAt(s, 1, "doc") THEN removeDocs(SubSeq(s, 4, Len(s)))
    ELSE CharAt(s, 1) \o removeDocs(Tail(s))

\* s.replace(/[\s._-]+/g, "").replace(/[^a-z0-9]/g, ""): after both passes
\* exactly the characters a-z and 0-9 remain.
RECURSIVE keepAlnum(_)
keepAlnum(s) ==
    IF Len(s) = 0 THEN ""
    ELSE IF CharAt(s, 1) \in AlnumSet
         THEN CharAt(s, 1) \o keepAlnum(Tail(s))
         ELSE keepAlnum(Tail(s))

\* Length of the longest prefix of s, from position i, made of characters
\* outside `stop` (a greedy negated character class).
RECURSIVE runLength(_, _, _)
runLength(s, i, stop) ==
    IF i > Len(s) \/ HasChar(stop, CharAt(s, i)) THEN 0
    ELSE 1 + runLength(s, i + 1, stop)

\* The regular expression /github\.com\/([^/]+)\/([^/#?]+)/ tried at
\* position i: <<owner, repo>> or <<>> when it does not match there.
githubMatchAt(s, i) ==
    IF ~MatchesAt(s, i, "github.com/") THEN <<>>
    ELSE LET o  == i + 11
             ol == runLength(s, o, "/")
             r  == o + ol + 1
             rl == runLength(s, r, "/#?")
         IN  IF ol > 0 /\ CharAt(s, o + ol) = "/" /\ rl > 0
             THEN <<SubSeq(s, o, o + ol - 1), SubSeq(s, r, r + rl - 1)>>
             ELSE <<>>

\* url.match(/github\.com\/([^/]+)\/([^/#?]+)/): the leftmost match.
githubMatch(s) ==
    LET hits == {i \in 1..Len(s) : githubMatchAt(s, i) # <<>>}
    IN  IF hits = {} THEN <<>>
        ELSE githubMatchAt(s, CHOOSE i \in hits : \A j \in hits : i <= j)

\* ------------------------------------------------------------------------
\* Matcher
\* ------------------------------------------------------------------------

extractRepoSlug(url) ==
    IF githubMatch(url) = <<>> THEN "" ELSE githubMatch(url)[2]

\* The normalisation without the removal of the trailing slash.
normalizeUrl_LowerOnly(url) == toLowerCase(url)

\* The normalisation isDuplicate applies to both URLs:
\* (url || "").toLowerCase().replace(/\/$/, "")
normalizeUrl(url) == stripTrailingSlash(toLowerCase(url))

\* isDuplicate comparing the new URL with the official URL as written.
isDuplicate_RawOfficialUrl(newItem, officialItem) ==
    LET newUrl       == stripTrailingSlash(toLowerCase(newItem.url))
        officialUrl  == officialItem.url
        newRepo      == IF githubMatch(newItem.url) = <<>> THEN ""
                        ELSE githubMatch(newItem.url)[2]
        officialRepo == IF githubMatch(officialItem.url) = <<>> THEN ""
                        ELSE githubMatch(officialItem.url)[2]
    IN  \/ newUrl # "" /\ officialUrl # "" /\ newUrl = officialUrl
        \/ newRepo # "" /\ officialRepo # "" /\ newRepo = officialRepo

\* Items are records [title, url, description]; the `newItem.homepage`
\* alternative is never taken by a caller (every caller passes url).
isDuplicate(newItem, officialItem) ==
    LET newUrl      == normalizeUrl(newItem.url)
        officialUrl == normalizeUrl(officialItem.url)
        newRepo      == extractRepoSlug(newItem.url)
        officialRepo == extractRepoSlug(officialItem.url)
    IN  \/ newUrl # "" /\ officialUrl # "" /\ newUrl = officialUrl
        \/ newRepo # "" /\ officialRepo # "" /\ newRepo = officialRepo

isSameTitle(newItem, officialItem) ==
    LET normalize(t) == toLowerCase(trim(t))
    IN  normalize(newItem.title) # ""
        /\ normalize(newItem.title) = normalize(officialItem.title)

normalizeThemeKey(input) ==
    trim(keepAlnum(removeDocs(removeAll(removeAll(removeAll(
        removeProtocol(toLowerCase(input)), "starlight"), "theme"), "astro"))))

keysEqual(x, y) == x # "" /\ y # "" /\ (x = y \/ includes(x, y) \/ includes(y, x))

isLikelySameTheme(a, b) ==
    LET keyA     == normalizeThemeKey(a.title)
        keyB     == normalizeThemeKey(b.title)
        repoKeyA == normalizeThemeKey(extractRepoSlug(a.url))
        repoKeyB == normalizeThemeKey(extractRepoSlug(b.url))
    IN  \/ keysEqual(keyA, keyB)
        \/ keysEqual(keyA, repoKeyB)
        \/ keysEqual(keyB, repoKeyA)
        \/ (repoKeyA # "" /\ repoKeyB # "" /\ keysEqual(repoKeyA, repoKeyB))

\* ------------------------------------------------------------------------
\* Validator: the memo test of validateUrl and the two check strategies
\* ------------------------------------------------------------------------

\* validateUrl without line 58: the key is never put in the memo.
validateUrl_NoMemoInsert(url, processed) ==
    IF url = ""
    THEN [how |-> "empty", key |-> "", verdict |-> FALSE, stage |-> "resolved",
          processed |-> processed]
    ELSE LET u == trim(url)
         IN  IF u \in processed
             THEN [how |-> "memo", key |-> u, verdict |-> TRUE, stage |-> "resolved",
                   processed |-> processed]
             ELSE [how |-> "check", key |-> u, verdict |-> FALSE,
                   stage |-> IF includes(u, "github.com") /\ githubMatch(u) # <<>>
                             THEN "api" ELSE "head",
                   processed |-> processed]

\* validateUrl without the test of line 51.
validateUrl_NoEmptyTest(url, processed) ==
    LET u == trim(url)
    IN  IF u \in processed
        THEN [how |-> "memo", key |-> u, verdict |-> TRUE, stage |-> "resolved",
              processed |-> processed]
        ELSE [how |-> "check", key |-> u, verdict |-> FALSE,
              stage |-> IF includes(u, "github.com") /\ githubMatch(u) # <<>>
                        THEN "api" ELSE "head",
              processed |-> processed \cup {u}]

\* The synchronous part of validateUrl, up to the first await of the check
\* it dispatches to.  `how` tells which return statement was taken:
\* "empty" (line 51), "memo" (line 57) or "check" (lines 60-63); `stage` is
\* the request the started check is waiting on ("api" for the repository
\* metadata request of checkGitHubRepo, "head" for the HEAD probe of
\* checkGeneralUrl, also reached through the fallback of line 73).
validateUrl(url, processed) ==
    IF url = ""
    THEN [how |-> "empty", key |-> "", verdict |-> FALSE, stage |-> "resolved",
          processed |-> processed]
    ELSE LET u == trim(url)
         IN  IF u \in processed
             THEN [how |-> "memo", key |-> u, verdict |-> TRUE, stage |-> "resolved",
                   processed |-> processed]
             ELSE [how |-> "check", key |-> u, verdict |-> FALSE,
                   stage |-> IF includes(u, "github.com") /\ githubMatch(u) # <<>>
                             THEN "api" ELSE "head",
                   processed |-> processed \cup {u}]

\* Responses of the repository-metadata endpoint.  kind "error" is a
\* rejected fetch; body is what response.json() yields for a 200 response
\* ("unparsable": json() rejects).
ApiStatuses == {200, 403, 404, 500}

ApiOutcomes ==
    {[kind |-> "error", status |-> 0, body |-> "none"]}
    \cup {[kind |-> "status", status |-> 200, body |-> b] : b \in {"fork", "nonfork", "unparsable"}}
    \cup {[kind |-> "status", status |-> s, body |-> "none"] : s \in ApiStatuses \ {200}}

\* checkGitHubRepo failing closed on 403.
checkGitHubRepo_FailClosed(o) ==
    IF o.kind = "error" THEN FALSE
    ELSE IF o.status = 200
         THEN (IF o.body = "unparsable" THEN FALSE
               ELSE IF o.body = "fork" THEN FALSE ELSE TRUE)
    ELSE FALSE

checkGitHubRepo(o) ==
    IF o.kind = "error" THEN FALSE
    ELSE IF o.status = 200
         THEN (IF o.body = "unparsable" THEN FALSE
               ELSE IF o.body = "fork" THEN FALSE ELSE TRUE)
    ELSE IF o.status = 404 THEN FALSE
    ELSE IF o.status = 403 THEN TRUE
    ELSE FALSE

\* Outcomes of one probe of checkGeneralUrl: a response status, a rejected
\* fetch ("error"), or the abort of the 6 s timer ("timeout").
ProbeStatuses == {200, 204, 403, 404, 405, 500}

ProbeOutcomes ==
    {[kind |-> "status", status |-> s] : s \in ProbeStatuses}
    \cup {[kind |-> k, status |-> 0] : k \in {"error", "timeout"}}

\* response.ok
responseOk(o) == o.kind = "status" /\ o.status >= 200 /\ o.status <= 299

\* Line 132 retrying on 405 only.
needsGet_Only405(o) == o.kind = "status" /\ o.status = 405

\* The condition of line 132 under which the GET probe follows the HEAD probe.
needsGet(o) == o.kind = "status" /\ (o.status = 405 \/ o.status = 403)

\* ------------------------------------------------------------------------
\* Classifier
\* ------------------------------------------------------------------------

Item(t, u, d) == [title |-> t, url |-> u, description |-> d]

toItem(pkg) == Item(pkg.name, pkg.homepage, pkg.description)

EmptyCategorized == [plugins |-> <<>>, themes |-> <<>>, tools |-> <<>>]

\* categorized[list].push(item)
pushTo(categorized, list, item) == [categorized EXCEPT ![list] = Append(@, item)]

\* The fallback also recognising the spelling "vs code".
fallbackCategory_VsCodeWords(pkg) ==
    LET text == toLowerCase(pkg.name \o " " \o pkg.description)
    IN  IF includes(text, "theme") \/ includes(pkg.name, "theme") THEN "themes"
        ELSE IF includes(text, "vscode") \/ includes(text, "vs code")
                \/ includes(text, "cli") \/ includes(text, "generator")
             THEN "tools"
        ELSE "plugins"

fallbackCategory(pkg) ==
    LET text == toLowerCase(pkg.name \o " " \o pkg.description)
    IN  IF includes(text, "theme") \/ includes(pkg.name, "theme") THEN "themes"
        ELSE IF includes(text, "vscode") \/ includes(text, "cli") \/ includes(text, "generator")
             THEN "tools"
        ELSE "plugins"

RECURSIVE fallbackFrom(_, _, _)
fallbackFrom(packages, i, categorized) ==
    IF i > Len(packages) THEN categorized
    ELSE fallbackFrom(packages, i + 1,
                      pushTo(categorized, fallbackCategory(packages[i]), toItem(packages[i])))

fallbackCategorization(packages) == fallbackFrom(packages, 1, EmptyCategorized)

\* What the categorization service does with the single request.  kind:
\* "httpError" (response.ok false), "exception" (fetch rejects, or the body
\* has no choices[0].message.content), "noJson" (text without a {...} match),
\* "badJson" (JSON.parse throws on the match), "json" (an object; labels[i+1]
\* is its value at key i).  A value is undefined (key absent), a string, or
\* a truthy non-string such as a number.
Undef == [type |-> "undefined", value |-> ""]

Str(s) == [type |-> "string", value |-> s]

Num == [type |-> "number", value |-> ""]

LabelPool == {Undef, Str(""), Str("plugin"), Str("theme"), Str("tool"), Str("theme tool"), Num}

FailureKinds == {"httpError", "exception", "noJson", "badJson"}

ServiceResponses(n) ==
    {[kind |-> k, labels |-> <<>>] : k \in FailureKinds}
    \cup {[kind |-> "json", labels |-> l] : l \in [1..n -> LabelPool]}

NoResponse == [kind |-> "none", labels |-> <<>>]

\* callGitHubModels: "throw" or the text of the reply (represented by the
\* response itself).
callGitHubModels(token, resp) ==
    IF ~token THEN "throw"
    ELSE IF resp.kind = "httpError" THEN "throw"
    ELSE IF resp.kind = "exception" THEN "throw"
    ELSE "text"

\* categorizeSupplementary contacting the service for an empty list too.
requestsSent_NoEmptyCheck(packages, token) == IF ~token THEN 0 ELSE 1

\* Number of requests categorizeSupplementary sends to the service: none
\* when it returns at line 511 or when callGitHubModels throws at line 156,
\* otherwise the one fetch of line 158.
requestsSent(packages, token) ==
    IF Len(packages) = 0 THEN 0
    ELSE IF ~token THEN 0
    ELSE 1

\* categorization[i] || categorization[String(i)] || "plugin"
labelOf(labels, i) ==
    IF labels[i].type = "undefined" \/ (labels[i].type = "string" /\ labels[i].value = "")
    THEN Str("plugin")
    ELSE labels[i]

\* The forEach testing for "tool" before "theme".
RECURSIVE categorizeFrom_ToolFirst(_, _, _, _)
categorizeFrom_ToolFirst(packages, labels, i, categorized) ==
    IF i > Len(packages) THEN [threw |-> FALSE, value |-> categorized]
    ELSE LET category == labelOf(labels, i)
         IN  IF category.type # "string" THEN [threw |-> TRUE, value |-> categorized]
             ELSE categorizeFrom_ToolFirst(packages, labels, i + 1,
                    pushTo(categorized,
                           IF includes(category.value, "tool") THEN "tools"
                           ELSE IF includes(category.value, "theme") THEN "themes"
                           ELSE "plugins",
                           toItem(packages[i])))

\* The body of the forEach of lines 570-582 from item i on; threw when
\* category.includes is not a function (the lists built so far are lost).
RECURSIVE categorizeFrom(_, _, _, _)
categorizeFrom(packages, labels, i, categorized) ==
    IF i > Len(packages) THEN [threw |-> FALSE, value |-> categorized]
    ELSE LET category == labelOf(labels, i)
         IN  IF category.type # "string" THEN [threw |-> TRUE, value |-> categorized]
             ELSE categorizeFrom(packages, labels, i + 1,
                    pushTo(categorized,
                           IF includes(category.value, "theme") THEN "themes"
                           ELSE IF includes(category.value, "tool") THEN "tools"
                           ELSE "plugins",
                           toItem(packages[i])))

\* categorizeSupplementary whose catch lets the fallback push onto the lists
\* the forEach had filled before it threw.
categorizeSupplementary_KeepPartial(packages, token, resp) ==
    IF Len(packages) = 0
    THEN [threw |-> FALSE, value |-> EmptyCategorized, path |-> "empty"]
    ELSE IF callGitHubModels(token, resp) = "throw"
         THEN [threw |-> FALSE, value |-> fallbackCategorization(packages),
               path |-> IF ~token THEN "noToken" ELSE resp.kind]
    ELSE IF resp.kind = "noJson"
         THEN [threw |-> FALSE, value |-> fallbackCategorization(packages), path |-> "noJson"]
    ELSE IF resp.kind = "badJson"
         THEN [threw |-> FALSE, value |-> fallbackCategorization(packages), path |-> "badJson"]
    ELSE IF categorizeFrom(packages, resp.labels, 1, EmptyCategorized).threw
         THEN [threw |-> FALSE,
               value |-> fallbackFrom(packages, 1,
                           categorizeFrom(packages, resp.labels, 1, EmptyCategorized).value),
               path |-> "typeError"]
    ELSE [threw |-> FALSE,
          value |-> categorizeFrom(packages, resp.labels, 1, EmptyCategorized).value,
          path |-> "primary"]

\* categorizeSupplementary without its try/catch: what callGitHubModels,
\* JSON.parse or the forEach throws reaches the caller.
categorizeSupplementary_Propagates(packages, token, resp) ==
    IF Len(packages) = 0
    THEN [threw |-> FALSE, value |-> EmptyCategorized, path |-> "empty"]
    ELSE IF callGitHubModels(token, resp) = "throw"
         THEN [threw |-> TRUE, value |-> EmptyCategorized,
               path |-> IF ~token THEN "noToken" ELSE resp.kind]
    ELSE IF resp.kind = "noJson"
         THEN [threw |-> FALSE, value |-> fallbackCategorization(packages), path |-> "noJson"]
    ELSE IF resp.kind = "badJson"
         THEN [threw |-> TRUE, value |-> EmptyCategorized, path |-> "badJson"]
    ELSE IF categorizeFrom(packages, resp.labels, 1, EmptyCategorized).threw
         THEN [threw |-> TRUE, value |-> EmptyCategorized, path |-> "typeError"]
    ELSE [threw |-> FALSE,
          value |-> categorizeFrom(packages, resp.labels, 1, EmptyCategorized).value,
          path |-> "primary"]

\* categorizeSupplementary: threw tells whether the call rejects, value is
\* the object it resolves to, and path names the return statement taken:
\* "empty" (line 511), "primary" (line 587), or the reason the fallback ran
\* (line 565 for "noJson", the catch of line 588 for the others).
categorizeSupplementary(packages, token, resp) ==
    IF Len(packages) = 0
    THEN [threw |-> FALSE, value |-> EmptyCategorized, path |-> "empty"]
    ELSE IF callGitHubModels(token, resp) = "throw"
         THEN [threw |-> FALSE, value |-> fallbackCategorization(packages),
               path |-> IF ~token THEN "noToken" ELSE resp.kind]
    ELSE IF resp.kind = "noJson"
         THEN [threw |-> FALSE, value |-> fallbackCategorization(packages), path |-> "noJson"]
    ELSE IF resp.kind = "badJson"
         THEN [threw |-> FALSE, value |-> fallbackCategorization(packages), path |-> "badJson"]
    ELSE IF categorizeFrom(packages, resp.labels, 1, EmptyCategorized).threw
         THEN [threw |-> FALSE, value |-> fallbackCategorization(packages),
               path |-> "typeError"]
    ELSE [threw |-> FALSE,
          value |-> categorizeFrom(packages, resp.labels, 1, EmptyCategorized).value,
          path |-> "primary"]

\* ------------------------------------------------------------------------
\* Sorting
\* ------------------------------------------------------------------------

\* name.split("/")[1] for a name that contains a slash
RECURSIVE secondPart(_, _)
secondPart(name, seen) ==
    IF Len(name) = 0 THEN ""
    ELSE IF CharAt(name, 1) = "/"
         THEN (IF seen THEN "" ELSE secondPart(Tail(name), TRUE))
    ELSE IF seen THEN CharAt(name, 1) \o secondPart(Tail(name), seen)
    ELSE secondPart(Tail(name), seen)

\* The key without the rule for scoped names.
sortByPackageName_FullTitle(title) == toLowerCase(trim(title))

sortByPackageName(title) ==
    LET name == toLowerCase(trim(title))
    IN  IF startsWith(name, "@")
        THEN (IF includes(name, "/") THEN secondPart(name, FALSE) ELSE name)
        ELSE name

\* localeCompare on lower-cased keys: the collation puts white space before
\* punctuation, punctuation before digits and digits before letters.
CollationOrder == " _-,;:!?.()@*/&#0123456789abcdefghijklmnopqrstuvwxyz"

CollationChars == Chars(CollationOrder)

WeightTable ==
    [c \in CollationChars |->
       CHOOSE i \in 1..Len(CollationOrder) : CharAt(CollationOrder, i) = c]

weight(c) == IF c \in CollationChars THEN WeightTable[c] ELSE 0

RECURSIVE localeCompare(_, _)
localeCompare(a, b) ==
    IF Len(a) = 0 /\ Len(b) = 0 THEN 0
    ELSE IF Len(a) = 0 THEN -1
    ELSE IF Len(b) = 0 THEN 1
    ELSE IF weight(CharAt(a, 1)) < weight(CharAt(b, 1)) THEN -1
    ELSE IF weight(CharAt(a, 1)) > weight(CharAt(b, 1)) THEN 1
    ELSE localeCompare(Tail(a), Tail(b))

compareItems(a, b) == localeCompare(sortByPackageName(a.title), sortByPackageName(b.title))

\* Array.prototype.sort is stable: an element goes after the elements that
\* do not compare greater than it.
RECURSIVE insertSorted(_, _)
insertSorted(sorted, x) ==
    IF Len(sorted) = 0 THEN <<x>>
    ELSE IF compareItems(sorted[Len(sorted)], x) <= 0 THEN Append(sorted, x)
    ELSE Append(insertSorted(SubSeq(sorted, 1, Len(sorted) - 1), x), sorted[Len(sorted)])

RECURSIVE sortItems(_)
sortItems(list) ==
    IF Len(list) = 0 THEN <<>>
    ELSE insertSorted(sortItems(SubSeq(list, 1, Len(list) - 1)), list[Len(list)])

\* ------------------------------------------------------------------------
\* Inputs of a run: what the remote origins can hand to the script
\* ------------------------------------------------------------------------

\* Number of .yml files the showcase listing returns, hence of concurrent
\* file tasks.
MaxFiles == 2

\* Number of objects the registry searches return in all.
MaxPackages == 2

EmptyData ==
    [plugins |-> <<>>, themes |-> <<>>, tools |-> <<>>,
     videos |-> <<>>, articles |-> <<>>, showcases |-> <<>>]

\* What the four official documents parse to.
OfficialScenarios ==
    { EmptyData,
      [EmptyData EXCEPT
         !.themes    = <<Item("Nova", "https://nova.dev", "")>>,
         !.plugins   = <<Item("starlight-blog", "https://github.com/y/starlight-blog", "")>>,
         !.showcases = <<Item("Nova Docs", "https://nova.dev/", "")>>] }

\* A showcase file: a site of the starlight category, a site of another
\* category, or a file whose fetch or YAML parse throws.
FilePool ==
    { [kind |-> "site", title |-> "Nova Docs", url |-> "https://nova.dev"],
      [kind |-> "site", title |-> "Mono", url |-> "https://github.com/x/mono/"],
      [kind |-> "other", title |-> "", url |-> ""],
      [kind |-> "broken", title |-> "", url |-> ""] }

FileLists == UNION {[1..n -> FilePool] : n \in 0..MaxFiles}

\* Objects of the registry search (pkg.package).
RegistryPool ==
    { [name |-> "starlight-theme-nova", description |-> "for astro",
       homepage |-> "https://github.com/x/starlight-theme-nova", repository |-> "",
       keywords |-> <<>>],
      [name |-> "starlight-i18n", description |-> "VS Code extension for Astro",
       homepage |-> "", repository |-> "https://github.com/x/mono",
       keywords |-> <<"starlight">>],
      [name |-> "@x/starlight-i18n", description |-> "vscode helper",
       homepage |-> "https://github.com/x/mono#readme", repository |-> "",
       keywords |-> <<"astro">>],
      [name |-> "astro-foo", description |-> "starlight",
       homepage |-> "https://nova.dev", repository |-> "",
       keywords |-> <<>>] }

RegistryStreams == UNION {[1..n -> RegistryPool] : n \in 0..MaxPackages}

\* allPackages.set(name, {...}) on a Map kept as the list of its values in
\* insertion order.
mapSet(list, pkg) ==
    IF \E i \in 1..Len(list) : list[i].name = pkg.name
    THEN [i \in 1..Len(list) |-> IF list[i].name = pkg.name THEN pkg ELSE list[i]]
    ELSE Append(list, pkg)

\* The loop of fetchSupplementaryNPM over the objects of both searches.
RECURSIVE collectPackages(_, _, _)
collectPackages(objects, i, list) ==
    IF i > Len(objects) THEN list
    ELSE LET o == objects[i]
         IN  IF includes(o.name, "starlight") \/ startsWith(o.name, "@astrojs/starlight")
             THEN collectPackages(objects, i + 1,
                    mapSet(list, [name |-> o.name, description |-> o.description,
                                  homepage |-> IF o.homepage # "" THEN o.homepage
                                               ELSE o.repository,
                                  keywords |-> o.keywords]))
             ELSE collectPackages(objects, i + 1, list)

\* keywords.join(" ")
RECURSIVE join(_)
join(words) ==
    IF Len(words) = 0 THEN ""
    ELSE IF Len(words) = 1 THEN words[1]
    ELSE words[1] \o " " \o join(Tail(words))

\* The concatenation of the six lists (line 455).
allOfficialItems(data) ==
    data.plugins \o data.themes \o data.tools \o data.videos \o data.articles \o data.showcases

\* Steps 1 and 2 of the loop of filterSupplementaryPackages: TRUE when the
\* package reaches the link check.
passesFilter(pkg, data) ==
    LET pkgItem == Item(pkg.name, pkg.homepage, "")
        all     == allOfficialItems(data)
        text    == toLowerCase(pkg.name \o " " \o pkg.description \o " " \o join(pkg.keywords))
    IN  /\ ~\E i \in 1..Len(all) : isDuplicate(pkgItem, all[i])
        /\ (startsWith(pkg.name, "@astrojs/") \/ includes(text, "astro"))
        /\ (includes(text, "starlight") \/ includes(pkg.name, "starlight"))

\* The keys the memo can hold in a run over these inputs.
AllUrls ==
    {trim(f.url) : f \in {g \in FilePool : g.kind = "site"}}
    \cup {trim(o.homepage) : o \in RegistryPool}
    \cup {trim(o.repository) : o \in RegistryPool}

\* ------------------------------------------------------------------------
\* State
\* ------------------------------------------------------------------------

VARIABLES
    pc,                 \* position of run / collectAllData
    officialData,       \* this.officialData
    processedUrls,      \* this.processedUrls
    files,              \* ymlFiles with their contents (fetchAstroShowcase)
    task,               \* the validations in flight: 0 is the loop of
                        \* filterSupplementaryPackages, 1.. the file tasks
    results,            \* what the file tasks resolved to
    npmPackages,        \* result of fetchSupplementaryNPM
    idx,                \* position of the loop of filterSupplementaryPackages
    validatedPackages,  \* its result so far
    categorized,        \* result of categorizeSupplementary
    svc,                \* the return statement categorizeSupplementary took
    token,              \* GITHUB_TOKEN, drawn where it is first consulted
    dryRun,             \* DRY_RUN, drawn where it is first consulted
    writes,             \* number of fs.writeFile calls on README.md
    exitCode,           \* process exit status
    checks,             \* per key: checks started (checkGitHubRepo/checkGeneralUrl)
    underlying,         \* per key: verdict of the first check that finished
    memoAnswers,        \* per key: verdicts answered from the memo (line 57)
    admitted,           \* urls of entries added from the showcase API or the registry
    before,             \* this.officialData as it was when the registry merge began
    serviceCalls,       \* requests sent to the categorization service
    call                \* the function call made in FunctionSpec (none in a run)

vars ==
    <<pc, officialData, processedUrls, files, task, results, npmPackages, idx,
      validatedPackages, categorized, svc, token, dryRun, writes, exitCode,
      checks, underlying, memoAnswers, admitted, before, serviceCalls, call>>

NoApi == [kind |-> "none", status |-> 0, body |-> "none"]

IdleTask ==
    [stage |-> "idle", key |-> "", how |-> "none", api |-> NoApi, probes |-> <<>>,
     verdict |-> FALSE]

Tasks == 0..MaxFiles

NoCall == [fn |-> "none", args |-> <<>>, ret |-> <<>>]

Init ==
    /\ pc = "fetchOfficialSources"
    /\ officialData = EmptyData
    /\ processedUrls = {}
    /\ files = <<>>
    /\ task = [t \in Tasks |-> IdleTask]
    /\ results = <<>>
    /\ npmPackages = <<>>
    /\ idx = 1
    /\ validatedPackages = <<>>
    /\ categorized = EmptyCategorized
    /\ svc = "none"
    /\ token = "unread"
    /\ dryRun = "unread"
    /\ writes = 0
    /\ exitCode = 0
    /\ checks = [u \in AllUrls |-> 0]
    /\ underlying = [u \in AllUrls |-> "none"]
    /\ memoAnswers = [u \in AllUrls |-> {}]
    /\ admitted = {}
    /\ before = EmptyData
    /\ serviceCalls = 0
    /\ call = NoCall

\* ------------------------------------------------------------------------
\* Validation steps, shared by the file tasks and the filter loop
\* ------------------------------------------------------------------------

\* Task t calls validateUrl(url) and runs it up to its first await.
CallValidateUrl(t, url) ==
    LET v == validateUrl(url, processedUrls)
    IN  /\ task' = [task EXCEPT ![t] =
                      [stage |-> v.stage, key |-> v.key, how |-> v.how, api |-> NoApi,
                       probes |-> <<>>, verdict |-> v.verdict]]
        /\ processedUrls' = v.processed
        /\ checks' = IF v.how = "check" THEN [checks EXCEPT ![v.key] = @ + 1] ELSE checks
        /\ memoAnswers' = IF v.how = "memo"
                          THEN [memoAnswers EXCEPT ![v.key] = @ \cup {v.verdict}]
                          ELSE memoAnswers

\* The check of task t finishes with verdict b.
Resolve(t, b) ==
    underlying' = [underlying EXCEPT ![task[t].key] =
                     IF @ = "none" THEN (IF b THEN "live" ELSE "dead") ELSE @]

\* checkGitHubRepo: the metadata request of task t completes.
ApiResponse(t) ==
    /\ task[t].stage = "api"
    /\ \E o \in ApiOutcomes :
         /\ task' = [task EXCEPT ![t].stage = "resolved", ![t].api = o,
                                 ![t].verdict = checkGitHubRepo(o)]
         /\ Resolve(t, checkGitHubRepo(o))
    /\ UNCHANGED <<pc, officialData, processedUrls, files, results, npmPackages, idx,
                   validatedPackages, categorized, svc, token, dryRun, writes, exitCode,
                   checks, memoAnswers, admitted, before, serviceCalls, call>>

\* checkGeneralUrl: the HEAD probe of task t completes; the GET probe is
\* issued when line 132 says so.
HeadResponse(t) ==
    /\ task[t].stage = "head"
    /\ \E o \in ProbeOutcomes :
         LET p == <<[method |-> "HEAD", outcome |-> o]>>
         IN  IF needsGet(o)
             THEN /\ task' = [task EXCEPT ![t].stage = "get", ![t].probes = p]
                  /\ UNCHANGED underlying
             ELSE /\ task' = [task EXCEPT ![t].stage = "resolved", ![t].probes = p,
                                          ![t].verdict = responseOk(o)]
                  /\ Resolve(t, responseOk(o))
    /\ UNCHANGED <<pc, officialData, processedUrls, files, results, npmPackages, idx,
                   validatedPackages, categorized, svc, token, dryRun, writes, exitCode,
                   checks, memoAnswers, admitted, before, serviceCalls, call>>

\* checkGeneralUrl: the GET probe of task t completes.
GetResponse(t) ==
    /\ task[t].stage = "get"
    /\ \E o \in ProbeOutcomes :
         /\ task' = [task EXCEPT ![t].stage = "resolved",
                                 ![t].probes = Append(@, [method |-> "GET", outcome |-> o]),
                                 ![t].verdict = responseOk(o)]
         /\ Resolve(t, responseOk(o))
    /\ UNCHANGED <<pc, officialData, processedUrls, files, results, npmPackages, idx,
                   validatedPackages, categorized, svc, token, dryRun, writes, exitCode,
                   checks, memoAnswers, admitted, before, serviceCalls, call>>

\* ------------------------------------------------------------------------
\* The run
\* ------------------------------------------------------------------------

\* fetchOfficialSources: the four documents are fetched and parsed; a
\* failed fetch rejects the Promise.all and run's catch exits with 1.
FetchOfficialSources ==
    /\ pc = "fetchOfficialSources"
    /\ \/ \E data \in OfficialScenarios :
            /\ officialData' = data
            /\ pc' = "fetchAstroShowcase"
            /\ UNCHANGED exitCode
       \/ /\ pc' = "failed"
          /\ exitCode' = 1
          /\ UNCHANGED officialData
    /\ UNCHANGED <<processedUrls, files, task, results, npmPackages, idx,
                   validatedPackages, categorized, svc, token, dryRun, writes,
                   checks, underlying, memoAnswers, admitted, before, serviceCalls, call>>

\* fetchAstroShowcase up to Promise.all: the listing fails (no sites, the
\* loop of collectAllData has nothing to merge) or every file task is
\* started and waits for its file.
FetchAstroShowcase ==
    /\ pc = "fetchAstroShowcase"
    /\ \/ /\ pc' = "fetchSupplementaryNPM"
          /\ UNCHANGED <<files, task, results>>
       \/ \E list \in FileLists :
            /\ files' = list
            /\ task' = [t \in Tasks |->
                          IF t \in 1..Len(list) THEN [IdleTask EXCEPT !.stage = "content"]
                          ELSE task[t]]
            /\ results' = [t \in 1..Len(list) |-> "pending"]
            /\ pc' = "showcase"
    /\ UNCHANGED <<officialData, processedUrls, npmPackages, idx, validatedPackages,
                   categorized, svc, token, dryRun, writes, exitCode, checks, underlying,
                   memoAnswers, admitted, before, serviceCalls, call>>

\* A file task gets its file: null for a file that throws or is not of the
\* starlight category, otherwise validateUrl(site.url).
ShowcaseContent(t) ==
    /\ pc = "showcase"
    /\ t \in 1..Len(files)
    /\ task[t].stage = "content"
    /\ IF files[t].kind = "site"
       THEN /\ CallValidateUrl(t, files[t].url)
            /\ UNCHANGED results
       ELSE /\ task' = [task EXCEPT ![t].stage = "finished"]
            /\ results' = [results EXCEPT ![t] = "null"]
            /\ UNCHANGED <<processedUrls, checks, memoAnswers>>
    /\ UNCHANGED <<pc, officialData, files, npmPackages, idx, validatedPackages,
                   categorized, svc, token, dryRun, writes, exitCode, underlying,
                   admitted, before, serviceCalls, call>>

\* A file task resumes after `await this.validateUrl(site.url)`.
ShowcaseResume(t) ==
    /\ pc = "showcase"
    /\ t \in 1..Len(files)
    /\ task[t].stage = "resolved"
    /\ results' = [results EXCEPT ![t] = IF task[t].verdict THEN "site" ELSE "null"]
    /\ task' = [task EXCEPT ![t] = [IdleTask EXCEPT !.stage = "finished"]]
    /\ UNCHANGED <<pc, officialData, processedUrls, files, npmPackages, idx,
                   validatedPackages, categorized, svc, token, dryRun, writes, exitCode,
                   checks, underlying, memoAnswers, admitted, before, serviceCalls, call>>

\* results.filter(Boolean)
RECURSIVE newSitesFrom(_, _, _)
newSitesFrom(fs, res, i) ==
    IF i > Len(fs) THEN <<>>
    ELSE (IF res[i] = "site" THEN <<Item(fs[i].title, fs[i].url, "")>> ELSE <<>>)
         \o newSitesFrom(fs, res, i + 1)

\* The loop of lines 635-641.
RECURSIVE mergeShowcases(_, _, _)
mergeShowcases(showcases, sites, i) ==
    IF i > Len(sites) THEN showcases
    ELSE IF \E j \in 1..Len(showcases) : isDuplicate(sites[i], showcases[j])
         THEN mergeShowcases(showcases, sites, i + 1)
         ELSE mergeShowcases(Append(showcases, sites[i]), sites, i + 1)

urlsFrom(list, from) == {list[i].url : i \in from..Len(list)}

\* Promise.all resolves; collectAllData merges the new sites.
ShowcaseJoin ==
    /\ pc = "showcase"
    /\ \A t \in 1..Len(files) : task[t].stage = "finished"
    /\ LET merged == mergeShowcases(officialData.showcases,
                                    newSitesFrom(files, results, 1), 1)
       IN  /\ officialData' = [officialData EXCEPT !.showcases = merged]
           /\ admitted' = admitted \cup urlsFrom(merged, Len(officialData.showcases) + 1)
    /\ task' = [t \in Tasks |-> IdleTask]
    /\ files' = <<>>
    /\ results' = <<>>
    /\ pc' = "fetchSupplementaryNPM"
    /\ UNCHANGED <<processedUrls, npmPackages, idx, validatedPackages, categorized, svc,
                   token, dryRun, writes, exitCode, checks, underlying, memoAnswers,
                   before, serviceCalls, call>>

\* fetchSupplementaryNPM: a failed search throws up to run's catch.
FetchSupplementaryNPM ==
    /\ pc = "fetchSupplementaryNPM"
    /\ \/ \E objects \in RegistryStreams :
            /\ npmPackages' = collectPackages(objects, 1, <<>>)
            /\ pc' = "filter"
            /\ UNCHANGED exitCode
       \/ /\ pc' = "failed"
          /\ exitCode' = 1
          /\ UNCHANGED npmPackages
    /\ idx' = 1
    /\ validatedPackages' = <<>>
    /\ UNCHANGED <<officialData, processedUrls, files, task, results, categorized, svc,
                   token, dryRun, writes, checks, underlying, memoAnswers, admitted,
                   before, serviceCalls, call>>

\* The loop of filterSupplementaryPackages not awaiting validateUrl: the
\* validation of package idx is left running and the loop goes on.
FilterStep_NoAwait ==
    /\ pc = "filter"
    /\ idx <= Len(npmPackages)
    /\ idx \in 1..MaxFiles
    /\ IF passesFilter(npmPackages[idx], officialData)
       THEN CallValidateUrl(idx, npmPackages[idx].homepage)
       ELSE UNCHANGED <<task, processedUrls, checks, memoAnswers>>
    /\ idx' = idx + 1
    /\ UNCHANGED <<pc, officialData, files, results, npmPackages, validatedPackages,
                   categorized, svc, token, dryRun, writes, exitCode, underlying,
                   admitted, before, serviceCalls, call>>

\* One iteration of the loop of filterSupplementaryPackages up to its await.
FilterStep ==
    /\ pc = "filter"
    /\ task[0].stage = "idle"
    /\ idx <= Len(npmPackages)
    /\ IF passesFilter(npmPackages[idx], officialData)
       THEN /\ CallValidateUrl(0, npmPackages[idx].homepage)
            /\ UNCHANGED idx
       ELSE /\ idx' = idx + 1
            /\ UNCHANGED <<task, processedUrls, checks, memoAnswers>>
    /\ UNCHANGED <<pc, officialData, files, results, npmPackages, validatedPackages,
                   categorized, svc, token, dryRun, writes, exitCode, underlying,
                   admitted, before, serviceCalls, call>>

\* The loop resumes after `await this.validateUrl(pkg.homepage)`.
FilterResume ==
    /\ pc = "filter"
    /\ task[0].stage = "resolved"
    /\ validatedPackages' = IF task[0].verdict
                            THEN Append(validatedPackages, npmPackages[idx])
                            ELSE validatedPackages
    /\ idx' = idx + 1
    /\ task' = [task EXCEPT ![0] = IdleTask]
    /\ UNCHANGED <<pc, officialData, processedUrls, files, results, npmPackages,
                   categorized, svc, token, dryRun, writes, exitCode, checks, underlying,
                   memoAnswers, admitted, before, serviceCalls, call>>

\* filterSupplementaryPackages returns.
FilterDone ==
    /\ pc = "filter"
    /\ task[0].stage = "idle"
    /\ idx > Len(npmPackages)
    /\ pc' = "categorize"
    /\ UNCHANGED <<officialData, processedUrls, files, task, results, npmPackages, idx,
                   validatedPackages, categorized, svc, token, dryRun, writes, exitCode,
                   checks, underlying, memoAnswers, admitted, before, serviceCalls, call>>

\* categorizeSupplementary, with the one exchange with the service.
CategorizeSupplementary ==
    /\ pc = "categorize"
    /\ \E tk \in BOOLEAN :
       \E resp \in IF tk /\ Len(validatedPackages) > 0
                   THEN ServiceResponses(Len(validatedPackages)) ELSE {NoResponse} :
         LET r == categorizeSupplementary(validatedPackages, tk, resp)
         IN  /\ token' = IF Len(validatedPackages) = 0 THEN token
                         ELSE IF tk THEN "set" ELSE "unset"
             /\ svc' = r.path
             /\ serviceCalls' = serviceCalls + requestsSent(validatedPackages, tk)
             /\ IF r.threw
                THEN /\ pc' = "failed"
                     /\ exitCode' = 1
                     /\ UNCHANGED categorized
                ELSE /\ pc' = "merge"
                     /\ categorized' = r.value
                     /\ UNCHANGED exitCode
    /\ UNCHANGED <<officialData, processedUrls, files, task, results, npmPackages, idx,
                   validatedPackages, dryRun, writes, checks, underlying, memoAnswers,
                   admitted, before, call>>

\* The filter of lines 650-658 without its third test.
newThemes_NoFuzzy(themes, existing) ==
    SelectSeq(themes,
        LAMBDA theme : ~\E j \in 1..Len(existing) :
            \/ isDuplicate(theme, existing[j])
            \/ isSameTitle(theme, existing[j]))

\* The filter of lines 650-658.
newThemes(themes, existing) ==
    SelectSeq(themes,
        LAMBDA theme : ~\E j \in 1..Len(existing) :
            \/ isDuplicate(theme, existing[j])
            \/ isSameTitle(theme, existing[j])
            \/ isLikelySameTheme(theme, existing[j]))

\* The merge letting a new theme take the place of the existing themes it
\* matches.
mergeCategorized_ReplaceMatched(data, cat) ==
    [plugins   |-> sortItems(data.plugins \o cat.plugins),
     themes    |-> sortItems(
                     SelectSeq(data.themes,
                         LAMBDA existing : ~\E i \in 1..Len(cat.themes) :
                             \/ isDuplicate(cat.themes[i], existing)
                             \/ isSameTitle(cat.themes[i], existing)
                             \/ isLikelySameTheme(cat.themes[i], existing))
                     \o cat.themes),
     tools     |-> sortItems(data.tools \o cat.tools),
     videos    |-> sortItems(data.videos),
     articles  |-> sortItems(data.articles),
     showcases |-> sortItems(data.showcases)]

\* Lines 648-669: the three pushes, then the sort of every list.
mergeCategorized(data, cat) ==
    [plugins   |-> sortItems(data.plugins \o cat.plugins),
     themes    |-> sortItems(data.themes \o newThemes(cat.themes, data.themes)),
     tools     |-> sortItems(data.tools \o cat.tools),
     videos    |-> sortItems(data.videos),
     articles  |-> sortItems(data.articles),
     showcases |-> sortItems(data.showcases)]

Merge ==
    /\ pc = "merge"
    /\ before' = officialData
    /\ officialData' = mergeCategorized(officialData, categorized)
    /\ admitted' = admitted \cup urlsFrom(categorized.plugins, 1)
                            \cup urlsFrom(newThemes(categorized.themes, officialData.themes), 1)
                            \cup urlsFrom(categorized.tools, 1)
    /\ pc' = "updateReadme"
    /\ UNCHANGED <<processedUrls, files, task, results, npmPackages, idx,
                   validatedPackages, categorized, svc, token, dryRun, writes, exitCode,
                   checks, underlying, memoAnswers, serviceCalls, call>>

\* updateReadme: README.md is read, the markers are looked up, and the file
\* is written unless DRY_RUN.
ReadmeStates == {"unreadable", "noStartMarker", "noEndMarker", "ok"}

\* updateReadme writing the file whatever DRY_RUN is.
UpdateReadme_IgnoresDryRun ==
    /\ pc = "updateReadme"
    /\ \E readme \in ReadmeStates, dry \in BOOLEAN, written \in BOOLEAN :
         IF readme # "ok"
         THEN /\ pc' = "failed"
              /\ exitCode' = 1
              /\ UNCHANGED <<dryRun, writes>>
         ELSE /\ dryRun' = IF dry THEN "set" ELSE "unset"
              /\ writes' = writes + 1
              /\ pc' = IF written THEN "done" ELSE "failed"
              /\ exitCode' = IF written THEN 0 ELSE 1
    /\ UNCHANGED <<officialData, processedUrls, files, task, results, npmPackages, idx,
                   validatedPackages, categorized, svc, token, checks, underlying,
                   memoAnswers, admitted, before, serviceCalls, call>>

UpdateReadme ==
    /\ pc = "updateReadme"
    /\ \E readme \in ReadmeStates, dry \in BOOLEAN, written \in BOOLEAN :
         IF readme # "ok"
         THEN /\ pc' = "failed"
              /\ exitCode' = 1
              /\ UNCHANGED <<dryRun, writes>>
         ELSE /\ dryRun' = IF dry THEN "set" ELSE "unset"
              /\ IF dry
                 THEN /\ pc' = "done"
                      /\ UNCHANGED <<writes, exitCode>>
                 ELSE /\ writes' = writes + 1
                      /\ pc' = IF written THEN "done" ELSE "failed"
                      /\ exitCode' = IF written THEN 0 ELSE 1
    /\ UNCHANGED <<officialData, processedUrls, files, task, results, npmPackages, idx,
                   validatedPackages, categorized, svc, token, checks, underlying,
                   memoAnswers, admitted, before, serviceCalls, call>>

Next ==
    \/ FetchOfficialSources
    \/ FetchAstroShowcase
    \/ \E t \in 1..MaxFiles : ShowcaseContent(t)
    \/ \E t \in Tasks : ApiResponse(t)
    \/ \E t \in Tasks : HeadResponse(t)
    \/ \E t \in Tasks : GetResponse(t)
    \/ \E t \in 1..MaxFiles : ShowcaseResume(t)
    \/ ShowcaseJoin
    \/ FetchSupplementaryNPM
    \/ FilterStep
    \/ FilterResume
    \/ FilterDone
    \/ CategorizeSupplementary
    \/ Merge
    \/ UpdateReadme

Spec == Init /\ [][Next]_vars

\* ------------------------------------------------------------------------
\* The registry part of a run whose showcase listing failed, over a registry
\* that also returns a package without any link
\* ------------------------------------------------------------------------

\* pkg.package.links has neither homepage nor repository.
BarePackage ==
    [name |-> "starlight-bare", description |-> "for astro",
     homepage |-> "", repository |-> "", keywords |-> <<>>]

\* A package whose homepage is a site outside github.com.
SitePackage ==
    [name |-> "starlight-site", description |-> "for astro",
     homepage |-> "https://nova.dev", repository |-> "", keywords |-> <<>>]

BareStreams ==
    UNION {[1..n -> RegistryPool \cup {BarePackage, SitePackage}] : n \in 0..MaxPackages}

\* The state in which filterSupplementaryPackages is entered.
RegistryInit ==
    /\ pc = "filter"
    /\ officialData \in OfficialScenarios
    /\ processedUrls = {}
    /\ files = <<>>
    /\ task = [t \in Tasks |-> IdleTask]
    /\ results = <<>>
    /\ npmPackages \in {collectPackages(objects, 1, <<>>) : objects \in BareStreams}
    /\ idx = 1
    /\ validatedPackages = <<>>
    /\ categorized = EmptyCategorized
    /\ svc = "none"
    /\ token = "unread"
    /\ dryRun = "unread"
    /\ writes = 0
    /\ exitCode = 0
    /\ checks = [u \in AllUrls |-> 0]
    /\ underlying = [u \in AllUrls |-> "none"]
    /\ memoAnswers = [u \in AllUrls |-> {}]
    /\ admitted = {}
    /\ before = EmptyData
    /\ serviceCalls = 0
    /\ call = NoCall

RegistryNext ==
    \/ FilterStep
    \/ ApiResponse(0)
    \/ HeadResponse(0)
    \/ GetResponse(0)
    \/ FilterResume
    \/ FilterDone
    \/ CategorizeSupplementary
    \/ Merge
    \/ UpdateReadme

RegistrySpec == RegistryInit /\ [][RegistryNext]_vars

\* ------------------------------------------------------------------------
\* The pure functions, each called on arguments of its own: a behaviour of
\* FunctionSpec is one call.
\* ------------------------------------------------------------------------

runVars ==
    <<pc, officialData, processedUrls, files, task, results, npmPackages, idx,
      validatedPackages, categorized, svc, token, dryRun, writes, exitCode,
      checks, underlying, memoAnswers, admitted, before, serviceCalls>>

\* URLs as the origins write them: empty, a lone slash, with one or more
\* trailing slashes, in another letter case, with a fragment.
UrlPool ==
    { "", "/", "https://nova.dev", "https://nova.dev/", "https://nova.dev//",
      "HTTPS://Nova.dev", "https://github.com/x/mono", "https://github.com/x/mono/",
      "https://github.com/y/mono#readme", "https://github.com/x/other" }

ItemPool == {Item("Nova", u, "") : u \in UrlPool}

\* The lists filterSupplementaryPackages can hand to categorizeSupplementary.
PackageLists == {collectPackages(objects, 1, <<>>) : objects \in RegistryStreams}

CallIsDuplicate ==
    /\ call.fn = "none"
    /\ \E a \in ItemPool, b \in ItemPool :
         call' = [fn |-> "isDuplicate", args |-> <<a, b>>, ret |-> isDuplicate(a, b)]
    /\ UNCHANGED runVars

CallNormalizeUrl ==
    /\ call.fn = "none"
    /\ \E u \in UrlPool :
         call' = [fn |-> "normalizeUrl", args |-> <<u>>, ret |-> normalizeUrl(u)]
    /\ UNCHANGED runVars

CallCategorizeSupplementary ==
    /\ call.fn = "none"
    /\ \E packages \in PackageLists, tk \in BOOLEAN :
       \E resp \in ServiceResponses(Len(packages)) :
         call' = [fn |-> "categorizeSupplementary", args |-> <<packages, tk, resp>>,
                  ret |-> categorizeSupplementary(packages, tk, resp)]
    /\ UNCHANGED runVars

FunctionNext ==
    \/ CallIsDuplicate
    \/ CallNormalizeUrl
    \/ CallCategorizeSupplementary

FunctionSpec == Init /\ [][FunctionNext]_vars

TypeOK ==
    /\ pc \in {"fetchOfficialSources", "fetchAstroShowcase", "showcase",
               "fetchSupplementaryNPM", "filter", "categorize", "merge", "updateReadme",
               "done", "failed"}
    /\ processedUrls \subseteq AllUrls
    /\ exitCode \in {0, 1}

\* ------------------------------------------------------------------------
\* Properties
\* ------------------------------------------------------------------------

Range(list) == {list[i] : i \in 1..Len(list)}

InFlight(t) == task[t].stage \in {"api", "head", "get"}

\* C1: every validateUrl call for a URL after the first returns the verdict
\* the first call computed for it, live or not live.
C1_MemoReturnsFirstVerdict ==
    \A u \in AllUrls :
        underlying[u] # "none" =>
            \A v \in memoAnswers[u] : v = (underlying[u] = "live")

\* C2: every entry admitted from the showcase API or the registry has a URL
\* whose check in this run returned live.
C2_AdmittedOnlyIfCheckedLive ==
    \A u \in admitted : trim(u) \in AllUrls /\ underlying[trim(u)] = "live"

\* C3: for every URL the underlying check (checkGitHubRepo or
\* checkGeneralUrl) is started at most once in a run, under every
\* interleaving of the validateUrl calls, duplicates issued while the first
\* check is in flight included.
C3_CheckStartedAtMostOnce == \A u \in AllUrls : checks[u] <= 1

\* A second lookup of a URL was answered while its first check was still in
\* flight, and one check was started for it.
C3_Witness ==
    \E t1 \in Tasks, t2 \in Tasks :
        /\ t1 # t2
        /\ InFlight(t1)
        /\ task[t2].how = "memo"
        /\ task[t2].key = task[t1].key
        /\ checks[task[t1].key] = 1

\* C4: for a github.com/<owner>/<repo> URL the verdict follows the metadata
\* response: 200 fork: not live; 200 non-fork: live; 404: not live; 403:
\* live; any other status, a network error or a body that does not parse:
\* not live.
C4_GitHubVerdictTable ==
    \A t \in Tasks :
        (/\ task[t].stage = "resolved"
         /\ task[t].how = "check"
         /\ githubMatch(task[t].key) # <<>>)
        => LET o == task[t].api
           IN  /\ o.kind # "none"
               /\ task[t].probes = <<>>
               /\ (o.kind = "status" /\ o.status = 200 /\ o.body = "fork") => ~task[t].verdict
               /\ (o.kind = "status" /\ o.status = 200 /\ o.body = "nonfork") => task[t].verdict
               /\ (o.kind = "status" /\ o.status = 404) => ~task[t].verdict
               /\ (o.kind = "status" /\ o.status = 403) => task[t].verdict
               /\ (o.kind = "status" /\ o.status \notin {200, 403, 404}) => ~task[t].verdict
               /\ o.kind = "error" => ~task[t].verdict
               /\ (o.kind = "status" /\ o.status = 200 /\ o.body = "unparsable")
                      => ~task[t].verdict

\* A repository check answered 403 and came out live.
C4_Witness ==
    \E t \in Tasks :
        /\ task[t].stage = "resolved"
        /\ githubMatch(task[t].key) # <<>>
        /\ task[t].api.kind = "status"
        /\ task[t].api.status = 403
        /\ task[t].verdict

\* C5: the generic check sends HEAD first; it sends GET if and only if HEAD
\* returned 405 or 403, and at most once, so at most two probes; the verdict
\* is live if and only if the status of the last probe is 2xx, and not live
\* on a timeout, a network error or any other final status.
C5_GenericProbeOrder ==
    \A t \in Tasks :
        LET p == task[t].probes
            retry(o) == o.kind = "status" /\ o.status \in {403, 405}
        IN  /\ task[t].stage = "head" => p = <<>>
            /\ task[t].stage = "get" =>
                   Len(p) = 1 /\ p[1].method = "HEAD" /\ retry(p[1].outcome)
            /\ (task[t].stage = "resolved" /\ task[t].how = "check"
                /\ task[t].api.kind = "none") =>
                   /\ Len(p) \in {1, 2}
                   /\ p[1].method = "HEAD"
                   /\ (Len(p) = 2) <=> retry(p[1].outcome)
                   /\ Len(p) = 2 => p[2].method = "GET"
                   /\ task[t].verdict <=>
                          (/\ p[Len(p)].outcome.kind = "status"
                           /\ p[Len(p)].outcome.status \in 200..299)
                   /\ p[Len(p)].outcome.kind \in {"error", "timeout"} => ~task[t].verdict

\* A generic check whose HEAD probe was refused with 403 and whose GET probe
\* returned 200 came out live.
C5_Witness ==
    \E t \in Tasks :
        /\ task[t].stage = "resolved"
        /\ Len(task[t].probes) = 2
        /\ task[t].probes[1].outcome.status = 403
        /\ task[t].probes[2].method = "GET"
        /\ task[t].probes[2].outcome.status = 200
        /\ task[t].verdict

Categories == {"plugins", "themes", "tools", "videos", "articles", "showcases"}

NoDuplicatePair(list) ==
    \A i \in 1..Len(list), j \in 1..Len(list) : i # j => ~isDuplicate(list[i], list[j])

\* C6: after collectAllData has merged all origins, no category holds two
\* distinct entries that isDuplicate relates, provided its official list had
\* no such pair (no list of OfficialScenarios has one); pairs of entries both
\* added in this run are included.
C6_NoDuplicatesInCategory ==
    pc = "updateReadme" =>
        \A c \in Categories : NoDuplicatePair(officialData[c])

\* C7: a new theme item is not added when isDuplicate, isSameTitle or
\* isLikelySameTheme relates it to an existing theme entry and is appended
\* otherwise; with official themes [Nova, https://nova.dev] and the live
\* candidate starlight-theme-nova the merged theme list is the original
\* entry alone.
C7_ThemeMerge ==
    pc = "updateReadme" =>
        LET new == categorized.themes
            old == before.themes
            matched(i) == \E j \in 1..Len(old) :
                              \/ isDuplicate(new[i], old[j])
                              \/ isSameTitle(new[i], old[j])
                              \/ isLikelySameTheme(new[i], old[j])
            appended == {i \in 1..Len(new) : ~matched(i)}
        IN  /\ Len(officialData.themes) = Len(old) + Cardinality(appended)
            /\ Range(officialData.themes) = Range(old) \cup {new[i] : i \in appended}
            /\ (/\ old = <<Item("Nova", "https://nova.dev", "")>>
                /\ Len(new) = 1
                /\ new[1].title = "starlight-theme-nova"
                /\ new[1].url = "https://github.com/x/starlight-theme-nova")
               => officialData.themes = <<Item("Nova", "https://nova.dev", "")>>

\* The candidate starlight-theme-nova was classified as a theme and the
\* merged theme list is still the official Nova entry alone.
C7_Witness ==
    /\ pc = "updateReadme"
    /\ before.themes = <<Item("Nova", "https://nova.dev", "")>>
    /\ Len(categorized.themes) = 1
    /\ categorized.themes[1].title = "starlight-theme-nova"
    /\ categorized.themes[1].url = "https://github.com/x/starlight-theme-nova"
    /\ officialData.themes = <<Item("Nova", "https://nova.dev", "")>>

Occurrences(list, item) == Cardinality({i \in 1..Len(list) : list[i] = item})

FallbackPaths == {"noToken", "httpError", "exception", "noJson", "badJson", "typeError"}

\* C8: whatever the categorization service does, categorizeSupplementary
\* returns each pending item exactly once, in exactly one of the lists
\* themes, plugins, tools, and produces no other category.
C8_EveryItemExactlyOnce ==
    svc # "none" =>
        /\ DOMAIN categorized = {"plugins", "themes", "tools"}
        /\ Len(categorized.plugins) + Len(categorized.themes) + Len(categorized.tools)
             = Len(validatedPackages)
        /\ \A i \in 1..Len(validatedPackages) :
             Occurrences(categorized.plugins, toItem(validatedPackages[i]))
               + Occurrences(categorized.themes, toItem(validatedPackages[i]))
               + Occurrences(categorized.tools, toItem(validatedPackages[i])) = 1

\* The forEach threw on its second item, after it had pushed the first, and
\* the two pending items are each in one list.
C8_Witness ==
    /\ svc = "typeError"
    /\ Len(validatedPackages) = 2
    /\ Len(categorized.plugins) + Len(categorized.themes) + Len(categorized.tools) = 2

\* C9: a failure of the primary classification path (no credential,
\* non-success response, no parsable object, any exception while reading the
\* response) is recovered inside categorizeSupplementary by the fallback over
\* all pending items; nothing reaches run's catch and the run goes on to the
\* merge.
C9_FailureRecoveredByFallback ==
    [][pc = "categorize" =>
         /\ pc' = "merge"
         /\ exitCode' = 0
         /\ svc' \in FallbackPaths =>
                categorized' = fallbackCategorization(validatedPackages)]_vars

\* The service answered with a non-success status and the run stands at the
\* merge with the fallback's lists.
C9_Witness ==
    /\ pc = "merge"
    /\ svc = "httpError"
    /\ Len(validatedPackages) > 0
    /\ exitCode = 0
    /\ Len(categorized.plugins) + Len(categorized.themes) + Len(categorized.tools) > 0

ListOf(pkg) ==
    IF toItem(pkg) \in Range(categorized.themes) THEN "themes"
    ELSE IF toItem(pkg) \in Range(categorized.tools) THEN "tools"
    ELSE IF toItem(pkg) \in Range(categorized.plugins) THEN "plugins"
    ELSE "none"

\* C10 as stated: after a service failure the fallback puts a package named
\* "starlight-theme-nova" in themes, a package whose description contains
\* "VS Code extension" in tools, and every other package in plugins.
C10_FallbackAsStated ==
    svc \in FallbackPaths =>
        \A pkg \in Range(validatedPackages) :
            ListOf(pkg) = IF pkg.name = "starlight-theme-nova" THEN "themes"
                          ELSE IF includes(pkg.description, "VS Code extension") THEN "tools"
                          ELSE "plugins"

\* C10 amended: after a service failure the fallback puts a package named
\* "starlight-theme-nova" in themes (as any package with "theme" in its name
\* or lower-cased name and description); it puts in tools the other packages
\* whose lower-cased name and description contain "vscode", "cli" or
\* "generator"; and in plugins every other package, one whose description
\* says "VS Code extension" and has none of these words included.
C10_FallbackKeywords ==
    svc \in FallbackPaths =>
        \A pkg \in Range(validatedPackages) :
            LET text  == toLowerCase(pkg.name \o " " \o pkg.description)
                theme == includes(text, "theme") \/ includes(pkg.name, "theme")
                tool  == \E w \in {"vscode", "cli", "generator"} : includes(text, w)
            IN  /\ pkg.name = "starlight-theme-nova" => ListOf(pkg) = "themes"
                /\ ListOf(pkg) = "themes" <=> theme
                /\ ListOf(pkg) = "tools" <=> (~theme /\ tool)
                /\ ListOf(pkg) = "plugins" <=> (~theme /\ ~tool)
                /\ (includes(pkg.description, "VS Code extension") /\ ~theme /\ ~tool)
                       => ListOf(pkg) = "plugins"

\* The fallback ran over a package described as a "VS Code extension" and
\* put it in plugins.
C10_Witness ==
    /\ svc \in FallbackPaths
    /\ \E pkg \in Range(validatedPackages) :
         /\ includes(pkg.description, "VS Code extension")
         /\ ListOf(pkg) = "plugins"

OriginSteps == {"fetchOfficialSources", "fetchAstroShowcase", "fetchSupplementaryNPM"}

OriginStepGoesOn == pc \in OriginSteps => (pc' # "failed" /\ exitCode' = 0)

\* C11: the failure to fetch an origin (an official document, the showcase
\* listing, the registry search) never ends the run: the step that fetches
\* an origin is never followed by the failed state, the exit status stays 0
\* and the run goes on with the other origins' items.
C11_OriginFailureRecovered == [][OriginStepGoesOn]_vars

\* C12: on every run that ends with a non-zero exit status no write of
\* README.md has been issued (absent markers included).
C12_NoWriteOnFatalRun == exitCode = 1 => writes = 0

KeepsEveryEntry ==
    \A c \in Categories :
        \A item \in Range(officialData[c]) :
            Occurrences(officialData'[c], item) >= Occurrences(officialData[c], item)

\* C13: once an entry is in a category it is in that category in every
\* later state of the run, as many times as before: fetching, merging and
\* sorting only add or reorder entries.
C13_AppendOnly == [][KeepsEveryEntry]_vars

\* The catalog handed to rendering still holds the official plugin, theme
\* and showcase, and its plugin list grew and was reordered by the sort.
C13_Witness ==
    /\ pc = "updateReadme"
    /\ Item("starlight-blog", "https://github.com/y/starlight-blog", "")
           \in Range(officialData.plugins)
    /\ Len(officialData.plugins) = 3
    /\ officialData.plugins # before.plugins \o categorized.plugins
    /\ Item("Nova", "https://nova.dev", "") \in Range(officialData.themes)
    /\ Item("Nova Docs", "https://nova.dev/", "") \in Range(officialData.showcases)

\* C14: the categorization service is contacted at most once in a run and
\* not at all when the list of pending items is empty (the result is then
\* three empty lists); the call is made by categorizeSupplementary alone and
\* has returned when the merge of the classified items begins.
C14_ServiceContactedAtMostOnce ==
    /\ serviceCalls <= 1
    /\ (svc # "none" /\ Len(validatedPackages) = 0) =>
           (serviceCalls = 0 /\ svc = "empty" /\ categorized = EmptyCategorized)
    /\ pc \in OriginSteps \cup {"showcase", "filter", "categorize"} =>
           (serviceCalls = 0 /\ svc = "none")
    /\ pc \in {"merge", "updateReadme", "done"} => svc # "none"

\* The run stands at the merge with no pending item, three empty lists and
\* no request sent, although a registry package had been fetched.
C14_Witness ==
    /\ pc = "merge"
    /\ Len(npmPackages) > 0
    /\ validatedPackages = <<>>
    /\ categorized = EmptyCategorized
    /\ serviceCalls = 0

\* The sortable key as the claim words it: the trimmed, lower-cased title,
\* and for "@scope/name" the part after the slash.
SortableKey(title) ==
    LET t     == toLowerCase(trim(title))
        slash == {i \in 1..Len(t) : CharAt(t, i) = "/"}
    IN  IF CharAt(t, 1) = "@" /\ slash # {}
        THEN SubSeq(t, (CHOOSE i \in slash : \A j \in slash : i <= j) + 1, Len(t))
        ELSE t

\* The list of category c as the pushes of lines 648-660 left it, before
\* the sort.
Pushed(c) ==
    before[c] \o (IF c = "plugins" THEN categorized.plugins
                  ELSE IF c = "themes" THEN newThemes(categorized.themes, before.themes)
                  ELSE IF c = "tools" THEN categorized.tools
                  ELSE <<>>)

PositionIn(list, item) == CHOOSE i \in 1..Len(list) : list[i] = item

\* C15: after collectAllData every category is in non-decreasing order of
\* the sortable key (trimmed, lower-cased title; the name part of
\* "@scope/name"), compared as localeCompare compares, and entries with equal
\* keys are in the order in which they stood before the sort.
C15_SortedByKey ==
    pc = "updateReadme" =>
        \A c \in Categories :
            LET list == officialData[c]
            IN  /\ Len(list) = Len(Pushed(c))
                /\ Range(list) = Range(Pushed(c))
                /\ \A i \in 1..Len(list), j \in 1..Len(list) :
                       i < j =>
                         /\ localeCompare(SortableKey(list[i].title),
                                          SortableKey(list[j].title)) <= 0
                         /\ SortableKey(list[i].title) = SortableKey(list[j].title) =>
                                PositionIn(Pushed(c), list[i]) < PositionIn(Pushed(c), list[j])

\* The plugins are starlight-blog, @x/starlight-i18n, starlight-i18n: the
\* scoped package stands by its name part after starlight-blog, and before
\* the package of equal key that was pushed after it.
C15_Witness ==
    /\ pc = "updateReadme"
    /\ Len(officialData.plugins) = 3
    /\ officialData.plugins[1].title = "starlight-blog"
    /\ officialData.plugins[2].title = "@x/starlight-i18n"
    /\ officialData.plugins[3].title = "starlight-i18n"

C17_NormalizeUrlIdempotent ==
    call.fn = "normalizeUrl" => normalizeUrl(call.ret) = call.ret

EndsInSlashes(u) == Len(u) >= 2 /\ SubSeq(u, Len(u) - 1, Len(u)) = "//"

\* C17 amended: normalizeUrl(normalizeUrl(u)) = normalizeUrl(u) for every
\* URL u that does not end in more than one slash; for a URL that ends in
\* two or more slashes each application removes exactly one of them, so the
\* second application changes the result of the first.
C17_IdempotentUpToOneSlash ==
    call.fn = "normalizeUrl" =>
        LET u == call.args[1]
        IN  /\ ~EndsInSlashes(u) => normalizeUrl(call.ret) = call.ret
            /\ EndsInSlashes(u) =>
                   /\ Len(call.ret) = Len(u) - 1
                   /\ Len(normalizeUrl(call.ret)) = Len(u) - 2
                   /\ normalizeUrl(call.ret) # call.ret

\* normalizeUrl was called on a URL with two trailing slashes and left one.
C17_Witness ==
    /\ call.fn = "normalizeUrl"
    /\ call.args[1] = "https://nova.dev//"
    /\ call.ret = "https://nova.dev/"

\* The list of the result r that holds item, "none" when no list does and
\* "many" when more than one does or one does twice.
ListHolding(r, item) ==
    LET n(list) == Occurrences(r[list], item)
    IN  IF n("plugins") + n("themes") + n("tools") = 0 THEN "none"
        ELSE IF n("plugins") + n("themes") + n("tools") > 1 THEN "many"
        ELSE IF n("themes") = 1 THEN "themes"
        ELSE IF n("tools") = 1 THEN "tools"
        ELSE "plugins"

\* C20: when the service answers with an object whose values are strings or
\* missing, the result is that of the primary path: the item at position i
\* gets the label found at index i, "plugin" when it is missing or empty;
\* a label containing "theme" puts it in themes (also when it contains
\* "tool"), otherwise a label containing "tool" puts it in tools, otherwise
\* it is a plugin; and whatever the object holds every item is in one list.
C20_PrimaryPathLabels ==
    (/\ call.fn = "categorizeSupplementary"
     /\ call.args[2]
     /\ call.args[3].kind = "json"
     /\ Len(call.args[1]) > 0)
    => LET packages == call.args[1]
           labels   == call.args[3].labels
           label(i) == IF labels[i].type = "string" /\ labels[i].value # ""
                       THEN labels[i].value ELSE "plugin"
           list(i)  == IF includes(label(i), "theme") THEN "themes"
                       ELSE IF includes(label(i), "tool") THEN "tools"
                       ELSE "plugins"
       IN  /\ ~call.ret.threw
           /\ call.ret.path = "primary" <=>
                  \A i \in 1..Len(packages) : labels[i].type \in {"undefined", "string"}
           /\ call.ret.path = "primary" =>
                  \A i \in 1..Len(packages) :
                      ListHolding(call.ret.value, toItem(packages[i])) = list(i)
           /\ \A i \in 1..Len(packages) :
                  ListHolding(call.ret.value, toItem(packages[i]))
                      \in {"plugins", "themes", "tools"}

\* The service labelled the first of two items "theme tool" and gave no
\* label for the second: the first is a theme, the second a plugin.
C20_Witness ==
    /\ call.fn = "categorizeSupplementary"
    /\ Len(call.args[1]) = 2
    /\ call.args[2]
    /\ call.args[3].kind = "json"
    /\ call.args[3].labels = <<Str("theme tool"), Undef>>
    /\ call.ret.path = "primary"
    /\ call.ret.value.themes = <<toItem(call.args[1][1])>>
    /\ call.ret.value.plugins = <<toItem(call.args[1][2])>>

\* The normalisation the specification gives for URLs: trimmed, lower-cased,
\* one trailing slash removed.
NormalizedKey(u) == stripTrailingSlash(toLowerCase(trim(u)))

\* C18: two URLs with the same normalized form (they differ in letter case,
\* surrounding white space or one trailing slash) share one memo entry: in
\* a run at most one check is started for the two together, and they get
\* the same verdict.
C18_MemoKeyedByNormalizedUrl ==
    \A u \in AllUrls, v \in AllUrls :
        (u # v /\ NormalizedKey(u) = NormalizedKey(v)) =>
            /\ checks[u] + checks[v] <= 1
            /\ (underlying[u] # "none" /\ underlying[v] # "none") =>
                   underlying[u] = underlying[v]

\* C19 as stated: in both batches every item that reaches validation has
\* been started before any validation of the batch is awaited: all file
\* tasks of the showcase batch are started together, and while the filter
\* loop awaits a validation no later package that reaches validation is
\* still to be started.
C19_BatchesIssuedConcurrently ==
    /\ pc = "showcase" => \A t \in 1..Len(files) : task[t].stage # "idle"
    /\ (pc = "filter" /\ task[0].stage # "idle") =>
           \A j \in (idx + 1)..Len(npmPackages) : ~passesFilter(npmPackages[j], officialData)

\* C19 amended: the validations of the showcase batch are issued
\* concurrently and joined (every file task is started before the join, so
\* up to n validations are in flight at once); the validations of the
\* registry batch are issued one at a time, each awaited before the next
\* package is looked at, so at most one is in flight.
C19_ShowcaseConcurrentRegistrySequential ==
    /\ pc = "showcase" => \A t \in 1..Len(files) : task[t].stage # "idle"
    /\ pc = "filter" =>
           /\ \A t \in 1..MaxFiles : task[t].stage = "idle"
           /\ Cardinality({t \in Tasks : InFlight(t)}) <= 1
           /\ Len(validatedPackages) <= idx - 1
           /\ task[0].stage # "idle" => task[0].key = trim(npmPackages[idx].homepage)

\* The check of the first package is in flight while the second package,
\* which will reach validation too, has not been looked at.
C19_Witness ==
    /\ pc = "filter"
    /\ InFlight(0)
    /\ idx = 1
    /\ Len(npmPackages) = 2
    /\ passesFilter(npmPackages[2], officialData)
    /\ npmPackages[2].homepage # ""
    /\ trim(npmPackages[2].homepage) \notin processedUrls

\* What a step may do to README.md: it writes only from updateReadme, which
\* is entered from the merge alone, with no error so far, DRY_RUN not set and
\* nothing written before; a step that finds DRY_RUN set writes nothing.
WritesOnlyAtEnd ==
    /\ writes' # writes =>
           /\ pc = "updateReadme"
           /\ exitCode = 0
           /\ svc # "none"
           /\ writes = 0
           /\ writes' = 1
           /\ dryRun' = "unset"
    /\ pc' = "updateReadme" => (pc = "merge" /\ exitCode = 0)
    /\ pc' = "merge" => pc = "categorize"
    /\ dryRun' = "set" => (writes' = 0 /\ pc' = "done")
    /\ dryRun = "set" => writes' = writes

\* C21: with DRY_RUN set README.md is never written, whatever officialData
\* holds; without it README.md is written at most once, by updateReadme
\* alone, after collectAllData has returned the merged and sorted lists and
\* while no error has ended the run.
C21_WriteOnlyAtEndUnlessDryRun == [][WritesOnlyAtEnd]_vars

\* A dry run ended with a catalog that holds an added plugin and no write.
C21_Witness ==
    /\ pc = "done"
    /\ dryRun = "set"
    /\ writes = 0
    /\ Len(officialData.plugins) > Len(before.plugins)

AllEntries == UNION {Range(officialData[c]) : c \in Categories}

\* C22: validateUrl called with an empty URL returns not live at once: no
\* check is started for it and the memo does not get it; so a registry
\* package with neither homepage nor repository link is in no list of
\* validated, classified or merged entries.
C22_EmptyUrlNotLiveNotMemoized ==
    /\ "" \notin processedUrls
    /\ checks[""] = 0
    /\ underlying[""] = "none"
    /\ \A t \in Tasks :
           task[t].how = "empty" =>
               (task[t].stage = "resolved" /\ ~task[t].verdict /\ task[t].probes = <<>>
                /\ task[t].api = NoApi)
    /\ \A t \in Tasks :
           (task[t].stage # "idle" /\ task[t].key = "") => task[t].how = "empty"
    /\ \A i \in 1..Len(validatedPackages) : validatedPackages[i].homepage # ""
    /\ \A item \in AllEntries : item.title # BarePackage.name /\ item.url # ""
    /\ "" \notin admitted

\* The filter loop has passed the package without links, which had reached
\* the link check, and kept the package that followed it.
C22_Witness ==
    /\ pc = "categorize"
    /\ Len(npmPackages) = 2
    /\ npmPackages[1].name = BarePackage.name
    /\ passesFilter(npmPackages[1], officialData)
    /\ Len(validatedPackages) = 1
    /\ validatedPackages[1] = npmPackages[2]
    /\ processedUrls = {trim(npmPackages[2].homepage)}

====
